---- MODULE Spec2Model ----
(***************************************************************************)
(* A model of src/utils.py: the recursive serializer `serialize`, the JSON *)
(* writer `to_json` and the diff reporter `compare_objects_diff`.          *)
(*                                                                         *)
(* Python values are tagged records.  The tag is the field t; every tag    *)
(* has its own payload fields:                                             *)
(*   none | bool b | int n | float tenths | str s (a sequence of           *)
(*   one-character strings) | list/tuple/set items | dict pairs (a         *)
(*   sequence of [key, val] in insertion order) | enum value mixin |       *)
(*   date y m d | decimal unscaled scale | opaque repr | obj ...           *)
(* A raised exception is the record [t |-> "raise", exc |-> name].         *)
(***************************************************************************)
EXTENDS Integers, Sequences, FiniteSets, TLC

VARIABLES
    obj,        \* the argument of the serialize call
    result,     \* what serialize returned (or raised)
    pc,         \* "call" before the call, "done" after it
    fs,         \* the file system: the directories, the files (location -> content)
    io,         \* the last to_json / compare_objects_diff call and its outcome
    wr,         \* the two concurrent writers: position, output, handle buffer
    shared      \* the content of the destination file the two writers share

vars == <<obj, result, pc, fs, io, wr, shared>>

(***************************************************************************)
(* Bounds of the model.                                                    *)
(***************************************************************************)
MaxStrLen == 3      \* every string over Alphabet up to this length is an input
MaxItems == 2       \* the longest list / tuple / set / dict drawn as an input
MaxOutLen == 3      \* the longest output of a concurrent writer

(***************************************************************************)
(* Value constructors.                                                     *)
(***************************************************************************)
PyNone == [t |-> "none"]
PyBool(b) == [t |-> "bool", b |-> b]
PyInt(n) == [t |-> "int", n |-> n]
PyFloat(tenths) == [t |-> "float", tenths |-> tenths]
PyStr(s) == [t |-> "str", s |-> s]
PyList(items) == [t |-> "list", items |-> items]
PyTuple(items) == [t |-> "tuple", items |-> items]
PySet(items) == [t |-> "set", items |-> items]
PyDict(pairs) == [t |-> "dict", pairs |-> pairs]
PyEnum(value, mixin) == [t |-> "enum", value |-> value, mixin |-> mixin]
PyDate(y, m, d) == [t |-> "date", y |-> y, m |-> m, d |-> d]
PyDecimal(unscaled, scale) == [t |-> "decimal", unscaled |-> unscaled, scale |-> scale]
PyOpaque(repr) == [t |-> "opaque", repr |-> repr]
PyObject == [t |-> "object"]
Missing == [t |-> "missing"]
Raise(exc) == [t |-> "raise", exc |-> exc]
IsRaise(v) == v.t = "raise"

Pair(k, v) == [key |-> k, val |-> v]
Field(name, v) == [name |-> name, val |-> v]
NoMethod == [has |-> FALSE, ret |-> PyNone]
Method(ret) == [has |-> TRUE, ret |-> ret]
NoVars == [has |-> FALSE, attrs |-> <<>>]
Vars(attrs) == [has |-> TRUE, attrs |-> attrs]

\* An instance of a user class (or, with is_type, the class itself): whether it
\* is a dataclass and its declared fields, its model_dump and dict methods, the
\* builtin it derives from, its __dict__.
PyObj(isdc, fields, dump, dict1, base, vs, is_type) ==
    [t |-> "obj", isdc |-> isdc, fields |-> fields, model_dump |-> dump,
     dict |-> dict1, base |-> base, vars |-> vs, is_type |-> is_type]

(***************************************************************************)
(* Sequence helpers.                                                       *)
(***************************************************************************)
Range(s) == {s[i] : i \in DOMAIN s}
SeqsUpTo(S, n) == UNION {[1..k -> S] : k \in 0..n}
IsPrefix(p, s) == Len(p) <= Len(s) /\ SubSeq(s, 1, Len(p)) = p
Last(s) == s[Len(s)]
Front(s) == SubSeq(s, 1, Len(s) - 1)

(***************************************************************************)
(* Characters and text.                                                    *)
(***************************************************************************)
Alphabet == {"{", "}", "[", "]", ",", ":", "\"", "a", "1", " "}
Digits == <<"0", "1", "2", "3", "4", "5", "6", "7", "8", "9">>
PyWhitespace == {" ", "\n", "\t", "\r"}
JsonWhitespace == {" ", "\n", "\t", "\r"}

DigitVal(c) == (CHOOSE i \in 1..10 : Digits[i] = c) - 1
IsDigit(c) == c \in Range(Digits)

RECURSIVE IntToChars(_)
IntToChars(n) == IF n < 10 THEN <<Digits[n + 1]>>
                 ELSE IntToChars(n \div 10) \o <<Digits[(n % 10) + 1]>>

RECURSIVE LStrip(_)
LStrip(s) == IF s # <<>> /\ Head(s) \in PyWhitespace THEN LStrip(Tail(s)) ELSE s
RECURSIVE RStrip(_)
RStrip(s) == IF s # <<>> /\ Last(s) \in PyWhitespace THEN RStrip(Front(s)) ELSE s
\* str.strip()
Strip(s) == RStrip(LStrip(s))
\* str.startswith(c)
StartsWith(s, c) == s # <<>> /\ Head(s) = c

RECURSIVE ZeroPad(_, _)
ZeroPad(s, width) == IF Len(s) >= width THEN s ELSE ZeroPad(<<"0">> \o s, width)

\* datetime.date.isoformat(): YYYY-MM-DD
IsoFormat(d) == ZeroPad(IntToChars(d.y), 4) \o <<"-">> \o ZeroPad(IntToChars(d.m), 2)
                \o <<"-">> \o ZeroPad(IntToChars(d.d), 2)

\* str(decimal.Decimal): the coefficient with the point scale digits from the right
DecimalStr(d) ==
    LET ds == ZeroPad(IntToChars(d.unscaled), d.scale + 1)
    IN  IF d.scale = 0 THEN ds
        ELSE SubSeq(ds, 1, Len(ds) - d.scale) \o <<".">>
             \o SubSeq(ds, Len(ds) - d.scale + 1, Len(ds))

\* repr(float) of a float that is a whole number of tenths
FloatRepr(v) == IntToChars(v.tenths \div 10) \o <<".">> \o IntToChars(v.tenths % 10)

(***************************************************************************)
(* Python dict semantics: hashing, key equality, insertion.                *)
(***************************************************************************)
RECURSIVE Hashable(_)
Hashable(v) ==
    CASE v.t \in {"list", "set", "dict"} -> FALSE
      [] v.t = "tuple" -> \A i \in DOMAIN v.items : Hashable(v.items[i])
      [] v.t = "obj" -> IF v.isdc /\ ~v.is_type THEN FALSE   \* @dataclass sets __hash__ = None
                        ELSE IF v.is_type THEN TRUE ELSE Hashable(v.base)
      [] OTHER -> TRUE

IsNumber(v) == v.t \in {"bool", "int", "float"}
NumTenths(v) == CASE v.t = "bool" -> IF v.b THEN 10 ELSE 0
                  [] v.t = "int" -> 10 * v.n
                  [] v.t = "float" -> v.tenths
\* k1 == k2 for dictionary keys: True == 1 == 1.0
KeyEq(k1, k2) == IF IsNumber(k1) /\ IsNumber(k2) THEN NumTenths(k1) = NumTenths(k2)
                 ELSE k1 = k2

HasKey(pairs, k) == \E i \in DOMAIN pairs : KeyEq(pairs[i].key, k)
\* d[k] = v on the insertion-ordered pairs of a dict: an equal key keeps its
\* place (and the first key object), a new key is appended
DictSet(pairs, k, v) ==
    IF HasKey(pairs, k)
    THEN [i \in DOMAIN pairs |-> IF KeyEq(pairs[i].key, k) THEN Pair(pairs[i].key, v)
                                 ELSE pairs[i]]
    ELSE Append(pairs, Pair(k, v))
Keys(d) == {d.pairs[i].key : i \in DOMAIN d.pairs}
Lookup(d, k) == (CHOOSE i \in DOMAIN d.pairs : d.pairs[i].key = k)

(***************************************************************************)
(* json.loads on the characters the model's texts are made of: objects,    *)
(* arrays, strings with the escapes \" \\ \n, non-negative integers,       *)
(* decimals with one fractional digit, true, false, null; whitespace       *)
(* between tokens; nothing but whitespace after the value.                 *)
(* A parse step returns [ok, val, next]: next is the index after the value.*)
(***************************************************************************)
ParseFail == [ok |-> FALSE, val |-> PyNone, next |-> 0]
Parsed(v, next) == [ok |-> TRUE, val |-> v, next |-> next]
At(s, i) == IF i \in DOMAIN s THEN s[i] ELSE "EOF"
Matches(s, i, word) == i + Len(word) - 1 <= Len(s) /\ SubSeq(s, i, i + Len(word) - 1) = word

RECURSIVE SkipWs(_, _)
SkipWs(s, i) == IF At(s, i) \in JsonWhitespace THEN SkipWs(s, i + 1) ELSE i

\* the characters of a string literal whose opening quote is at i - 1
RECURSIVE ParseString(_, _, _)
ParseString(s, i, acc) ==
    LET c == At(s, i)
    IN  CASE c = "EOF" -> ParseFail
          [] c = "\"" -> Parsed(PyStr(acc), i + 1)
          [] c = "\\" ->
                LET e == At(s, i + 1)
                IN  CASE e = "\"" -> ParseString(s, i + 2, Append(acc, "\""))
                      [] e = "\\" -> ParseString(s, i + 2, Append(acc, "\\"))
                      [] e = "n" -> ParseString(s, i + 2, Append(acc, "\n"))
                      [] OTHER -> ParseFail
          [] c \in {"\n", "\t", "\r"} -> ParseFail        \* strict: no control characters
          [] OTHER -> ParseString(s, i + 1, Append(acc, c))

RECURSIVE ScanDigits(_, _, _)
ScanDigits(s, i, acc) ==
    IF IsDigit(At(s, i)) THEN ScanDigits(s, i + 1, 10 * acc + DigitVal(s[i]))
    ELSE [val |-> acc, next |-> i]

\* (0|[1-9]\d*)(\.\d)?
ParseNumber(s, i) ==
    LET whole == IF s[i] = "0" THEN [val |-> 0, next |-> i + 1] ELSE ScanDigits(s, i, 0)
    IN  IF At(s, whole.next) = "." /\ IsDigit(At(s, whole.next + 1))
        THEN Parsed(PyFloat(10 * whole.val + DigitVal(s[whole.next + 1])), whole.next + 2)
        ELSE Parsed(PyInt(whole.val), whole.next)

RECURSIVE ParseValue(_, _)
RECURSIVE ParseArray(_, _, _)
RECURSIVE ParseObject(_, _, _)

ParseValue(s, i) ==
    LET c == At(s, i)
    IN  CASE c = "\"" -> ParseString(s, i + 1, <<>>)
          [] c = "{" ->
                LET j == SkipWs(s, i + 1)
                IN  IF At(s, j) = "}" THEN Parsed(PyDict(<<>>), j + 1)
                    ELSE ParseObject(s, j, <<>>)
          [] c = "[" ->
                LET j == SkipWs(s, i + 1)
                IN  IF At(s, j) = "]" THEN Parsed(PyList(<<>>), j + 1)
                    ELSE ParseArray(s, j, <<>>)
          [] Matches(s, i, <<"n", "u", "l", "l">>) -> Parsed(PyNone, i + 4)
          [] Matches(s, i, <<"t", "r", "u", "e">>) -> Parsed(PyBool(TRUE), i + 4)
          [] Matches(s, i, <<"f", "a", "l", "s", "e">>) -> Parsed(PyBool(FALSE), i + 5)
          [] IsDigit(c) -> ParseNumber(s, i)
          [] OTHER -> ParseFail

\* the items of an array from the item at i on
ParseArray(s, i, acc) ==
    LET item == ParseValue(s, i)
    IN  IF ~item.ok THEN ParseFail
        ELSE LET j == SkipWs(s, item.next)
                 items == Append(acc, item.val)
             IN  CASE At(s, j) = "]" -> Parsed(PyList(items), j + 1)
                   [] At(s, j) = "," -> ParseArray(s, SkipWs(s, j + 1), items)
                   [] OTHER -> ParseFail

\* the members of an object from the key at i on; a repeated key keeps its
\* last value
ParseObject(s, i, acc) ==
    IF At(s, i) # "\"" THEN ParseFail
    ELSE LET key == ParseString(s, i + 1, <<>>)
         IN  IF ~key.ok THEN ParseFail
             ELSE LET j == SkipWs(s, key.next)
                  IN  IF At(s, j) # ":" THEN ParseFail
                      ELSE LET member == ParseValue(s, SkipWs(s, j + 1))
                           IN  IF ~member.ok THEN ParseFail
                               ELSE LET k == SkipWs(s, member.next)
                                        pairs == DictSet(acc, key.val, member.val)
                                    IN  CASE At(s, k) = "}" -> Parsed(PyDict(pairs), k + 1)
                                          [] At(s, k) = "," ->
                                                ParseObject(s, SkipWs(s, k + 1), pairs)
                                          [] OTHER -> ParseFail

\* json.loads(s): the parsed value, or a raise (JSONDecodeError is a ValueError)
json_loads(s) ==
    LET r == ParseValue(s, SkipWs(s, 1))
    IN  IF r.ok /\ SkipWs(s, r.next) = Len(s) + 1 THEN r.val ELSE Raise("JSONDecodeError")

(***************************************************************************)
(* The tests serialize makes on its argument.                              *)
(***************************************************************************)
\* the builtin value an object is, or derives from
Core(v) == IF v.t = "obj" THEN v.base ELSE v
\* isinstance(v, one of the builtin types tags); an enum member is also an
\* instance of its mixin type (class Color(str, Enum))
IsInstance(v, tags) == Core(v).t \in tags \/ (v.t = "enum" /\ v.mixin \in tags)
\* isinstance(v, type)
IsType(v) == v.t = "obj" /\ v.is_type
\* hasattr(v, name) for the two method names serialize looks for
HasAttr(v, name) == v.t = "obj" /\ v[name].has
\* hasattr(v, "__dict__"): instances of user classes, classes, enum members
HasDunderDict(v) == (v.t = "obj" /\ (v.vars.has \/ v.is_type)) \/ v.t = "enum"
\* an enum member's own attributes are all private
EnumVars(v) == <<Pair(PyStr(<<"_", "v">>), v.value), Pair(PyStr(<<"_", "n">>), PyStr(<<"a">>))>>
DunderDict(v) == IF v.t = "enum" THEN EnumVars(v) ELSE v.vars.attrs

\* str(v) for the values the fallback meets
Str(v) == CASE v.t = "opaque" -> v.repr
            [] v.t = "obj" /\ v.is_type -> <<"<", "c", ">">>
            [] v.t = "obj" /\ v.base.t = "opaque" -> v.base.repr
            [] OTHER -> <<"<", "o", ">">>

\* the rules of serialize in the order of the source, 1 (dataclass) to 12 (fallback)
Rules == 1..12
RuleApplies(r, v) ==
    CASE r = 1 -> v.t = "obj" /\ v.isdc
      [] r = 2 -> HasAttr(v, "model_dump")
      [] r = 3 -> HasAttr(v, "dict")
      [] r = 4 -> IsInstance(v, {"list", "tuple", "set"})
      [] r = 5 -> IsInstance(v, {"dict"})
      [] r = 6 -> v.t = "enum"
      [] r = 7 -> IsInstance(v, {"date"})
      [] r = 8 -> IsInstance(v, {"decimal"})
      [] r = 9 -> HasDunderDict(v) /\ ~IsType(v)
      [] r = 10 -> IsInstance(v, {"str"})
      [] r = 11 -> IsInstance(v, {"int", "float", "bool"}) \/ v.t = "none"
      [] r = 12 -> TRUE

(***************************************************************************)
(* serialize.                                                              *)
(***************************************************************************)
RECURSIVE serialize(_)
RECURSIVE SerializeFields(_, _)
RECURSIVE SerializeItems(_, _)
RECURSIVE SerializePairs(_, _)
RECURSIVE SerializeVars(_, _)

\* {f.name: serialize(getattr(obj, f.name)) for f in dataclasses.fields(obj)}
SerializeFields(fields, acc) ==
    IF fields = <<>> THEN PyDict(acc)
    ELSE LET f == Head(fields)
         IN  IF f.val.t = "missing" THEN Raise("AttributeError")
             ELSE LET r == serialize(f.val)
                  IN  IF IsRaise(r) THEN r
                      ELSE SerializeFields(Tail(fields), DictSet(acc, PyStr(f.name), r))

\* [serialize(item) for item in obj]
SerializeItems(items, acc) ==
    IF items = <<>> THEN PyList(acc)
    ELSE LET r == serialize(Head(items))
         IN  IF IsRaise(r) THEN r ELSE SerializeItems(Tail(items), Append(acc, r))

\* {serialize(k): serialize(v) for k, v in obj.items()}
SerializePairs(pairs, acc) ==
    IF pairs = <<>> THEN PyDict(acc)
    ELSE LET k == serialize(Head(pairs).key)
         IN  IF IsRaise(k) THEN k
             ELSE LET v == serialize(Head(pairs).val)
                  IN  IF IsRaise(v) THEN v
                      ELSE IF ~Hashable(k) THEN Raise("TypeError")
                      ELSE SerializePairs(Tail(pairs), DictSet(acc, k, v))

\* SerializeVars without the test on the leading underscore
SerializeVarsKeepPrivate(attrs, acc) ==
    IF attrs = <<>> THEN PyDict(acc)
    ELSE LET k == Head(attrs).key
         IN  IF k.t # "str" THEN Raise("AttributeError")
             ELSE LET v == serialize(Head(attrs).val)
                  IN  IF IsRaise(v) THEN v
                      ELSE SerializeVars(Tail(attrs), DictSet(acc, k, v))

\* {k: serialize(v) for k, v in obj.__dict__.items() if not k.startswith("_")}
SerializeVars(attrs, acc) ==
    IF attrs = <<>> THEN PyDict(acc)
    ELSE LET k == Head(attrs).key
         IN  IF k.t # "str" THEN Raise("AttributeError")
             ELSE IF StartsWith(k.s, "_") THEN SerializeVars(Tail(attrs), acc)
             ELSE LET v == serialize(Head(attrs).val)
                  IN  IF IsRaise(v) THEN v
                      ELSE SerializeVars(Tail(attrs), DictSet(acc, k, v))

\* SerializeStr that canonicalizes the parsed structure once more
SerializeStrAgain(v) ==
    LET s == Strip(Core(v).s)
    IN  IF StartsWith(s, "{") \/ StartsWith(s, "[")
        THEN LET parsed == json_loads(s)
             IN  IF IsRaise(parsed) THEN v ELSE serialize(parsed)
        ELSE v

\* the string rule: JSON-looking text is parsed, anything else is kept
SerializeStr(v) ==
    LET s == Strip(Core(v).s)
    IN  IF StartsWith(s, "{") \/ StartsWith(s, "[")
        THEN LET parsed == json_loads(s)
             IN  IF IsRaise(parsed) THEN v ELSE parsed
        ELSE v

\* a bound method called on the class itself lacks its self argument
CallMethod(v, name) ==
    IF v.is_type THEN Raise("TypeError") ELSE serialize(v[name].ret)

\* the body of rule r
ApplyRule(r, v) ==
    CASE r = 1 -> SerializeFields(v.fields, <<>>)
      [] r = 2 -> CallMethod(v, "model_dump")
      [] r = 3 -> CallMethod(v, "dict")
      [] r = 4 -> SerializeItems(Core(v).items, <<>>)
      [] r = 5 -> SerializePairs(Core(v).pairs, <<>>)
      [] r = 6 -> v.value
      [] r = 7 -> PyStr(IsoFormat(Core(v)))
      [] r = 8 -> PyStr(DecimalStr(Core(v)))
      [] r = 9 -> SerializeVars(DunderDict(v), <<>>)
      [] r = 10 -> SerializeStr(v)
      [] r = 11 -> v
      [] r = 12 -> PyStr(Str(v))

\* the if chain: the number of the first rule whose test the value passes
Dispatch(v) ==
    IF RuleApplies(1, v) THEN 1
    ELSE IF RuleApplies(2, v) THEN 2
    ELSE IF RuleApplies(3, v) THEN 3
    ELSE IF RuleApplies(4, v) THEN 4
    ELSE IF RuleApplies(5, v) THEN 5
    ELSE IF RuleApplies(6, v) THEN 6
    ELSE IF RuleApplies(7, v) THEN 7
    ELSE IF RuleApplies(8, v) THEN 8
    ELSE IF RuleApplies(9, v) THEN 9
    ELSE IF RuleApplies(10, v) THEN 10
    ELSE IF RuleApplies(11, v) THEN 11
    ELSE 12

\* the if chain with the generic-attribute test moved to the front
DispatchGenericFirst(v) == IF RuleApplies(9, v) THEN 9 ELSE Dispatch(v)

\* the rule serialize takes for a value
RuleOf(v) == Dispatch(v)

serialize(v) == ApplyRule(RuleOf(v), v)

(***************************************************************************)
(* json.dumps(value, indent=indent, sort_keys=sort_keys): the text, or a   *)
(* raise for a value or a key the encoder does not know.                   *)
(***************************************************************************)
\* the characters of the model's texts in code point order
Ascii == <<"\t", "\n", "\r", " ", "\"", ",", "-", ".", "0", "1", "2", "3", "4", "5", "6",
           "7", "8", "9", ":", "<", ">", "[", "\\", "]", "_", "a", "b", "c", "d", "e",
           "f", "l", "n", "o", "r", "s", "t", "u", "v", "x", "y", "z", "{", "}">>
Ord(c) == CHOOSE i \in DOMAIN Ascii : Ascii[i] = c

\* s1 < s2 for str
RECURSIVE StrLess(_, _)
StrLess(s1, s2) ==
    IF s2 = <<>> THEN FALSE
    ELSE IF s1 = <<>> THEN TRUE
    ELSE IF Head(s1) = Head(s2) THEN StrLess(Tail(s1), Tail(s2))
    ELSE Ord(Head(s1)) < Ord(Head(s2))

RECURSIVE TupleLess(_, _)
\* k1 < k2 is defined: numbers with numbers, str with str, tuples item by item
RECURSIVE Orderable(_, _)
Orderable(k1, k2) ==
    \/ IsNumber(k1) /\ IsNumber(k2)
    \/ k1.t = "str" /\ k2.t = "str"
    \/ /\ k1.t = "tuple" /\ k2.t = "tuple"
       /\ \A i \in 1..(IF Len(k1.items) < Len(k2.items) THEN Len(k1.items) ELSE Len(k2.items)) :
            (\A j \in 1..(i - 1) : k1.items[j] = k2.items[j]) /\ k1.items[i] # k2.items[i]
                => Orderable(k1.items[i], k2.items[i])
KeyLess(k1, k2) ==
    CASE IsNumber(k1) -> NumTenths(k1) < NumTenths(k2)
      [] k1.t = "str" -> StrLess(k1.s, k2.s)
      [] OTHER -> TupleLess(k1.items, k2.items)
TupleLess(a, b) ==
    IF b = <<>> THEN FALSE
    ELSE IF a = <<>> THEN TRUE
    ELSE IF Head(a) = Head(b) THEN TupleLess(Tail(a), Tail(b))
    ELSE KeyLess(Head(a), Head(b))

\* sorted(dct.items()) for pairwise orderable keys
RECURSIVE SortPairs(_)
Insert(sorted, p) ==
    LET before == {i \in DOMAIN sorted : KeyLess(sorted[i].key, p.key)}
        n == Cardinality(before)
    IN  SubSeq(sorted, 1, n) \o <<p>> \o SubSeq(sorted, n + 1, Len(sorted))
SortPairs(pairs) == IF pairs = <<>> THEN <<>> ELSE Insert(SortPairs(Front(pairs)), Last(pairs))

RECURSIVE Escape(_)
Escape(s) ==
    IF s = <<>> THEN <<>>
    ELSE (CASE Head(s) = "\"" -> <<"\\", "\"">>
            [] Head(s) = "\\" -> <<"\\", "\\">>
            [] Head(s) = "\n" -> <<"\\", "n">>
            [] OTHER -> <<Head(s)>>) \o Escape(Tail(s))
Quoted(s) == <<"\"">> \o Escape(s) \o <<"\"">>

RECURSIVE Spaces(_)
Spaces(n) == IF n = 0 THEN <<>> ELSE <<" ">> \o Spaces(n - 1)
NewlineIndent(indent, level) == <<"\n">> \o Spaces(indent * level)

\* the text of a scalar, used for values and for coerced keys
ScalarText(v) ==
    CASE v.t = "none" -> <<"n", "u", "l", "l">>
      [] v.t = "bool" -> IF v.b THEN <<"t", "r", "u", "e">> ELSE <<"f", "a", "l", "s", "e">>
      [] v.t = "int" -> IntToChars(v.n)
      [] v.t = "float" -> FloatRepr(v)
IsScalar(v) == v.t \in {"none", "bool", "int", "float"}
\* keys must be str, int, float, bool or None
KeyEncodable(k) == k.t = "str" \/ IsScalar(k)
KeyText(k) == IF k.t = "str" THEN k.s ELSE ScalarText(k)

NoText == [ok |-> FALSE, text |-> <<>>]
Text(cs) == [ok |-> TRUE, text |-> cs]

RECURSIVE Encode(_, _, _, _)
RECURSIVE EncodeItems(_, _, _, _, _)
RECURSIVE EncodePairs(_, _, _, _, _)

EncodeItems(items, indent, sort_keys, level, acc) ==
    IF items = <<>> THEN Text(acc \o NewlineIndent(indent, level - 1) \o <<"]">>)
    ELSE LET e == Encode(Head(items), indent, sort_keys, level)
         IN  IF ~e.ok THEN NoText
             ELSE EncodeItems(Tail(items), indent, sort_keys, level,
                              acc \o NewlineIndent(indent, level) \o e.text
                                  \o (IF Len(items) > 1 THEN <<",">> ELSE <<>>))

EncodePairs(pairs, indent, sort_keys, level, acc) ==
    IF pairs = <<>> THEN Text(acc \o NewlineIndent(indent, level - 1) \o <<"}">>)
    ELSE LET p == Head(pairs)
         IN  IF ~KeyEncodable(p.key) THEN NoText
             ELSE LET e == Encode(p.val, indent, sort_keys, level)
                  IN  IF ~e.ok THEN NoText
                      ELSE EncodePairs(Tail(pairs), indent, sort_keys, level,
                                       acc \o NewlineIndent(indent, level)
                                           \o Quoted(KeyText(p.key)) \o <<":", " ">> \o e.text
                                           \o (IF Len(pairs) > 1 THEN <<",">> ELSE <<>>))

Encode(v, indent, sort_keys, level) ==
    CASE IsScalar(v) -> Text(ScalarText(v))
      [] v.t = "str" -> Text(Quoted(v.s))
      [] v.t \in {"list", "tuple"} ->
            IF v.items = <<>> THEN Text(<<"[", "]">>)
            ELSE EncodeItems(v.items, indent, sort_keys, level + 1, <<"[">>)
      [] v.t = "dict" ->
            IF v.pairs = <<>> THEN Text(<<"{", "}">>)
            ELSE IF ~sort_keys THEN EncodePairs(v.pairs, indent, sort_keys, level + 1, <<"{">>)
            ELSE IF \E i, j \in DOMAIN v.pairs :
                        i # j /\ ~Orderable(v.pairs[i].key, v.pairs[j].key)
                 THEN NoText
            ELSE EncodePairs(SortPairs(v.pairs), indent, sort_keys, level + 1, <<"{">>)
      [] OTHER -> NoText      \* set, Decimal, date, enum member, any other object

json_dumps(v, indent, sort_keys) ==
    LET e == Encode(v, indent, sort_keys, 0)
    IN  IF e.ok THEN PyStr(e.text) ELSE Raise("TypeError")

\* str.splitlines() of a text whose only line boundaries are "\n"
RECURSIVE SplitLines(_, _)
SplitLines(s, line) ==
    IF s = <<>> THEN (IF line = <<>> THEN <<>> ELSE <<line>>)
    ELSE IF Head(s) = "\n" THEN <<line>> \o SplitLines(Tail(s), <<>>)
    ELSE SplitLines(Tail(s), Append(line, Head(s)))

(***************************************************************************)
(* The inputs of serialize.                                                *)
(***************************************************************************)
\* texts longer than MaxStrLen: well-formed and malformed JSON, JSON inside a
\* JSON string, repeated keys, surrounding whitespace
LongTexts ==
    {<<"{", "\"", "a", "\"", ":", "1", "}">>,
     <<" ", "{", "\"", "a", "\"", ":", "1", "}", " ">>,
     <<"{", "\"", "a", "\"", ":", "1">>,
     <<"{", "a", ":", "1", "}">>,
     <<"[", "1", ",", "\"", "a", "\"", "]">>,
     <<"[", "\"", "[", "1", "]", "\"", "]">>,
     <<"{", "\"", "a", "\"", ":", "\"", "[", "1", "]", "\"", "}">>,
     <<"{", "\"", "a", "\"", ":", "1", ",", "\"", "a", "\"", ":", "[", "]", "}">>,
     <<"[", "1", ",", " ", "[", "1", "]", "]">>,
     <<"[", "[", "1", "]", " ">>,
     <<"{", "\"", "a", "\"", ":", "{", "\"", "1", "\"", ":", "[", "1", ",", "1", "]", "}", "}">>,
     <<"[", "1", "]", "]", "]">>,
     <<"a", "[", "1", "]">>,
     <<" ", " ", "a", " ", " ">>}
StrInputs == {PyStr(s) : s \in SeqsUpTo(Alphabet, MaxStrLen) \cup LongTexts}

NameA == <<"a">>
NameB == <<"b">>
NameX == <<"x">>
NameY == <<"_", "y">>
JsonText == <<"[", "1", "]">>

Scalars == {PyNone, PyBool(TRUE), PyInt(1), PyFloat(25), PyStr(NameA), PyStr(JsonText),
            PyDate(2024, 1, 5), PyDecimal(10005, 3), PyOpaque(<<"b", "1">>)}

DistinctKeys(pairs) ==
    \A i, j \in DOMAIN pairs : i # j => ~KeyEq(pairs[i].key, pairs[j].key)

SeqInputs == {PyList(items) : items \in SeqsUpTo(Scalars, MaxItems)}
             \cup {PyTuple(items) : items \in SeqsUpTo(Scalars, MaxItems)}
             \cup {PySet(items) : items \in SeqsUpTo(Scalars, MaxItems)}

\* keys a Python dict can hold: hashable values, a tuple and enum members among them
DictKeys == {PyStr(NameA), PyStr(JsonText), PyInt(1), PyBool(TRUE), PyNone,
             PyTuple(<<PyInt(1)>>), PyEnum(PyTuple(<<PyInt(1)>>), "none"),
             PyEnum(PyStr(NameA), "str")}
DictVals == {PyInt(2), PyDecimal(15, 1)}
DictPairs == {Pair(k, v) : k \in DictKeys, v \in DictVals}
DictInputs == {PyDict(ps) : ps \in {q \in SeqsUpTo(DictPairs, MaxItems) : DistinctKeys(q)}}

\* an instance of a plain class with the attributes attrs
Generic(attrs) == PyObj(FALSE, <<>>, NoMethod, NoMethod, PyObject, Vars(attrs), FALSE)
\* the object of the private-attribute example: x = 1, _y = 2
XY == Generic(<<Pair(PyStr(NameX), PyInt(1)), Pair(PyStr(NameY), PyInt(2))>>)
AttrKeys == {PyStr(NameX), PyStr(NameY), PyStr(NameA), PyInt(1)}
AttrVals == {PyInt(1), PyStr(JsonText), PyDecimal(15, 1), XY, PyList(<<XY>>)}
AttrPairs == {Pair(k, v) : k \in AttrKeys, v \in AttrVals}
GenericInputs == {Generic(ps) : ps \in {q \in SeqsUpTo(AttrPairs, MaxItems) : DistinctKeys(q)}}

\* enum members: any stored value, with the mixin type when the class has one
EnumValues == Scalars \cup {PyList(<<PyInt(1)>>), PyTuple(<<PyInt(1)>>), PySet(<<PyInt(1)>>),
                            PyDict(<<Pair(PyInt(1), PyInt(2))>>), XY}
EnumInputs == {PyEnum(v, "none") : v \in EnumValues}
              \cup {PyEnum(PyStr(NameA), "str"), PyEnum(PyStr(JsonText), "str"),
                    PyEnum(PyInt(1), "int")}

\* objects that fall into several categories at once: every combination of
\* being a dataclass, having model_dump, having dict, deriving from a builtin
\* and having a __dict__; each capability carries its own payload, so the
\* rule that produced a result can be told from the result
InnerRecord == PyObj(TRUE, <<Field(<<"c">>, PyStr(NameX))>>, NoMethod, NoMethod,
                     PyObject, NoVars, FALSE)
RecordFields == <<Field(NameA, PyInt(1)), Field(NameB, PyList(<<InnerRecord>>))>>
DumpRet == PyDict(<<Pair(PyStr(<<"d">>), Generic(<<Pair(PyStr(NameX), PyInt(1))>>))>>)
DictRet == PyDict(<<Pair(PyStr(<<"v">>), PyInt(1))>>)
OwnVars == <<Pair(PyStr(NameX), PyInt(1)), Pair(PyStr(NameY), PyInt(2))>>
Bases == {PyObject, PyList(<<PyInt(1), PyStr(JsonText)>>), PyTuple(<<PyInt(1)>>),
          PyDict(<<Pair(PyStr(NameA), PyInt(1))>>), PyDate(2024, 1, 5),
          PyDecimal(10005, 3), PyStr(JsonText), PyStr(NameA), PyInt(1), PyOpaque(<<"b">>)}
MixedInputs ==
    {PyObj(isdc, IF isdc THEN RecordFields ELSE <<>>,
           IF dump THEN Method(DumpRet) ELSE NoMethod,
           IF dict1 THEN Method(DictRet) ELSE NoMethod,
           base,
           IF hasvars THEN Vars(OwnVars) ELSE NoVars,
           FALSE) :
        isdc \in BOOLEAN, dump \in BOOLEAN, dict1 \in BOOLEAN, hasvars \in BOOLEAN,
        base \in Bases}

\* classes themselves: plain, dataclass (a field without a default is no
\* attribute of the class), with the model methods
ClassFields == {<<>>, <<Field(NameA, PyInt(1))>>, <<Field(NameA, Missing)>>}
TypeInputs ==
    {PyObj(fields # <<>>, fields,
           IF dump THEN Method(DumpRet) ELSE NoMethod,
           IF dict1 THEN Method(DictRet) ELSE NoMethod,
           PyObject, NoVars, TRUE) :
        fields \in ClassFields, dump \in BOOLEAN, dict1 \in BOOLEAN}

\* composites of composites
NestedInputs ==
    {PyList(<<v>>) : v \in {XY, PyEnum(PyDecimal(15, 1), "none"), InnerRecord,
                            PyDict(<<Pair(PyTuple(<<PyInt(1)>>), PyInt(2))>>),
                            PyList(<<PyStr(JsonText)>>)}}
    \cup {PyDict(<<Pair(PyStr(NameA), v)>>) : v \in {XY, PyEnum(PySet(<<PyInt(1)>>), "none"),
                                                    PyList(<<XY>>)}}
    \cup {Generic(<<Pair(PyStr(NameA), PyList(<<Generic(<<Pair(PyStr(NameX), XY)>>)>>))>>),
          PyDict(<<Pair(PyInt(1), PyInt(2)), Pair(PyStr(<<"1">>), PyInt(2))>>),
          PyDict(<<Pair(PyEnum(PyList(<<>>), "none"), PyInt(2))>>)}
    \cup {PyObj(TRUE, RecordFields, NoMethod, NoMethod, PyObject,
                Vars(<<Pair(PyStr(NameA), PyInt(1)), Pair(PyStr(<<"z">>), PyInt(2))>>), FALSE)}

Inputs == StrInputs \cup Scalars \cup SeqInputs \cup DictInputs \cup GenericInputs
          \cup EnumInputs \cup MixedInputs \cup TypeInputs \cup NestedInputs

(***************************************************************************)
(* The serialize call: Init draws the argument, Call applies serialize.    *)
(***************************************************************************)
NoResult == [t |-> "pending"]
IdleFs == [dirs |-> {}, files |-> <<>>]
IdleIo == [op |-> "none"]
IdleWr == <<>>

Init ==
    /\ obj \in Inputs
    /\ result = NoResult
    /\ pc = "call"
    /\ fs = IdleFs /\ io = IdleIo /\ wr = IdleWr /\ shared = <<>>

Call ==
    /\ pc = "call"
    /\ result' = serialize(obj)
    /\ pc' = "done"
    /\ UNCHANGED <<obj, fs, io, wr, shared>>

Next == Call

Spec == Init /\ [][Next]_vars

(***************************************************************************)
(* Paths and the file system.  A path is absolute or relative and has a    *)
(* sequence of names; a name has a stem and a suffix; the empty relative   *)
(* path is the empty string.  A location is the sequence of names from the *)
(* root.  The file system holds the directories and the files by location. *)
(***************************************************************************)
Name(stem, suffix) == [stem |-> stem, suffix |-> suffix]
AbsPath(parts) == [t |-> "path", abs |-> TRUE, parts |-> parts]
RelPath(parts) == [t |-> "path", abs |-> FALSE, parts |-> parts]
EmptyPath == RelPath(<<>>)
DirName(stem) == Name(stem, "")
Cwd == <<DirName("home")>>
TempDir == <<DirName("tmp")>>

Resolve(p) == IF p.abs THEN p.parts ELSE Cwd \o p.parts
\* os.path.join(a, b): an absolute b discards a
Join(a, b) == IF b.abs THEN b ELSE [t |-> "path", abs |-> a.abs, parts |-> a.parts \o b.parts]

IsDir(f, loc) == loc = <<>> \/ loc \in f.dirs
IsFile(f, loc) == loc \in DOMAIN f.files
Prefixes(loc) == {SubSeq(loc, 1, n) : n \in 1..Len(loc)}

\* with open(path, "w") as f: f.write(content)
OpenWrite(f, p, content) ==
    LET loc == Resolve(p)
    IN  CASE p = EmptyPath -> [fs |-> f, err |-> "FileNotFoundError"]
          [] loc = <<>> \/ loc \in f.dirs -> [fs |-> f, err |-> "IsADirectoryError"]
          [] \E q \in Prefixes(Front(loc)) : IsFile(f, q) ->
                [fs |-> f, err |-> "NotADirectoryError"]
          [] ~IsDir(f, Front(loc)) -> [fs |-> f, err |-> "FileNotFoundError"]
          [] OTHER -> [fs |-> [f EXCEPT !.files = (loc :> content) @@ f.files], err |-> "none"]

\* os.makedirs(path, exist_ok=True)
Makedirs(f, p) ==
    LET loc == Resolve(p)
    IN  CASE p = EmptyPath -> [fs |-> f, err |-> "FileNotFoundError"]
          [] IsFile(f, loc) -> [fs |-> f, err |-> "FileExistsError"]
          [] \E q \in Prefixes(loc) : IsFile(f, q) -> [fs |-> f, err |-> "NotADirectoryError"]
          [] OTHER -> [fs |-> [f EXCEPT !.dirs = f.dirs \cup Prefixes(loc)], err |-> "none"]

\* difflib.HtmlDiff(tabsize, wrapcolumn).make_file(lines1, lines2, fromdesc, todesc):
\* the renderer is an external collaborator; the report is what it was given
TabSize == 2
WrapColumn == 80
JsonIndent == 4
DiffIndent == 2
MakeFile(lines1, lines2, fromdesc, todesc) ==
    [t |-> "html", tabsize |-> TabSize, wrapcolumn |-> WrapColumn,
     fromlines |-> lines1, tolines |-> lines2, fromdesc |-> fromdesc, todesc |-> todesc]

(***************************************************************************)
(* to_json.  A call returns [fs, ret, stage]: the file system after it,    *)
(* the returned path or the raise, and the statement that raised           *)
(* ("serialize", "encode", "makedirs", "write") or "ok".                   *)
(***************************************************************************)
Outcome(f, ret, stage) == [fs |-> f, ret |-> ret, stage |-> stage]
\* `if file_path:` is false for None and for the empty string
Truthy(file_path) == file_path # PyNone /\ file_path # EmptyPath
\* tempfile.NamedTemporaryFile(suffix=".json", delete=False) with the unused stem it drew
TempPath(stem) == AbsPath(TempDir \o <<Name(stem, ".json")>>)

\* the destination: file_path, or the temporary file when file_path is falsy
Destination(file_path, stem) == IF Truthy(file_path) THEN file_path ELSE TempPath(stem)

\* after the with block: the raise of open, or the path returned
ToJsonReturn(written, path, f) ==
    IF written.err # "none" THEN Outcome(f, Raise(written.err), "write")
    ELSE Outcome(written.fs, path, "ok")

\* after json.dumps: its raise, or the with block writing json_str
ToJsonWrite(json_str, path, f) ==
    IF IsRaise(json_str) THEN Outcome(f, json_str, "encode")
    ELSE ToJsonReturn(OpenWrite(f, path, json_str), path, f)

\* to_json with the destination opened before data is looked at
ToJsonOpenFirst(data, path, f) ==
    IF IsRaise(data) THEN Outcome(OpenWrite(f, path, PyStr(<<>>)).fs, data, "serialize")
    ELSE ToJsonWrite(json_dumps(data, JsonIndent, FALSE), path, f)

\* after serialize: its raise, or json.dumps(data, indent=4)
ToJsonDump(data, path, f) ==
    IF IsRaise(data) THEN Outcome(f, data, "serialize")
    ELSE ToJsonWrite(json_dumps(data, JsonIndent, FALSE), path, f)

to_json(input_data, file_path, f, stem) ==
    ToJsonDump(serialize(input_data), Destination(file_path, stem), f)

(***************************************************************************)
(* compare_objects_diff.                                                   *)
(***************************************************************************)
\* the canonicalizers a caller may pass as serialize_func
Overrides == {"identity", "empty", "raises"}
CallOverride(name, v) ==
    CASE name = "identity" -> v                     \* lambda o: o
      [] name = "empty" -> PyDict(<<>>)             \* lambda o: {}
      [] name = "raises" -> Raise("ValueError")
\* serialize_func is None: the default serialize
Canonicalize(serialize_func, v) ==
    IF serialize_func = "none" THEN serialize(v) ELSE CallOverride(serialize_func, v)

\* after the with block: the raise of open, or the path returned
DiffReturn(written, made, output_path) ==
    IF written.err # "none" THEN Outcome(made.fs, Raise(written.err), "write")
    ELSE Outcome(written.fs, output_path, "ok")

\* after os.makedirs: its raise, or the with block writing html_report
DiffWrite(html_report, made, output_path, f) ==
    IF made.err # "none" THEN Outcome(f, Raise(made.err), "makedirs")
    ELSE DiffReturn(OpenWrite(made.fs, output_path, html_report), made, output_path)

\* after the two json.dumps: a raise, or make_file, os.makedirs and os.path.join
DiffRender(json1, json2, output_dir, filename, f) ==
    IF IsRaise(json1) THEN Outcome(f, json1, "encode")
    ELSE IF IsRaise(json2) THEN Outcome(f, json2, "encode")
    ELSE DiffWrite(MakeFile(SplitLines(json1.s, <<>>), SplitLines(json2.s, <<>>),
                            "Object 1", "Object 2"),
                   Makedirs(f, output_dir), Join(output_dir, filename), f)

\* after the two serialize calls: a raise, or json.dumps(indent=2, sort_keys=True) of each
DiffDump(dict1, dict2, output_dir, filename, f) ==
    IF IsRaise(dict1) THEN Outcome(f, dict1, "serialize")
    ELSE IF IsRaise(dict2) THEN Outcome(f, dict2, "serialize")
    ELSE DiffRender(json_dumps(dict1, DiffIndent, TRUE), json_dumps(dict2, DiffIndent, TRUE),
                    output_dir, filename, f)

compare_objects_diff(obj1, obj2, serialize_func, output_dir, filename, f) ==
    DiffDump(Canonicalize(serialize_func, obj1), Canonicalize(serialize_func, obj2),
             output_dir, filename, f)

(***************************************************************************)
(* One call of to_json or compare_objects_diff on a file system: Init      *)
(* draws the file system the call finds, the action draws the arguments.   *)
(***************************************************************************)
OutDir == <<DirName("out")>>
JsonName == Name("a", ".json")
HtmlName == Name("object_diff", ".html")
OldText == PyStr(<<"o", "l", "d">>)
TempStems == {"tmp0", "tmp1"}
BaseDirs == {Cwd, TempDir}
Blocker == <<DirName("blk")>>       \* a regular file where a directory is asked for
NoFiles == [loc \in {} |-> OldText]

InitFs ==
    {[dirs |-> BaseDirs \cup (IF outdir THEN {OutDir} ELSE {}),
      files |-> (Blocker :> OldText)
                @@ (IF outdir /\ old
                    THEN (OutDir \o <<JsonName>> :> OldText) @@ (OutDir \o <<HtmlName>> :> OldText)
                    ELSE NoFiles)
                @@ (IF tmpused THEN (Resolve(TempPath("tmp0")) :> OldText) ELSE NoFiles) ] :
        outdir \in BOOLEAN, old \in BOOLEAN, tmpused \in BOOLEAN}

\* values handed to the two operations: plain ones, one serialize raises on,
\* ones the encoder refuses (always, or only with sorted keys), keys that are
\* not strings, JSON text
IoInputs == {PyInt(1),
             PyDict(<<Pair(PyStr(NameA), PyList(<<PyInt(1), PyFloat(25)>>))>>),
             PyDict(<<Pair(PyStr(NameB), PyInt(1)), Pair(PyStr(NameA), PyStr(<<"\"">>))>>),
             PyDict(<<Pair(PyInt(1), PyInt(2))>>),
             PyDict(<<Pair(PyInt(1), PyInt(2)), Pair(PyStr(NameA), PyInt(2))>>),
             PyDict(<<Pair(PyTuple(<<PyInt(1)>>), PyInt(2))>>),
             PyEnum(PyDecimal(15, 1), "none"),
             PyStr(<<"{", "\"", "a", "\"", ":", "1", "}">>),
             XY}
\* the second object of a comparison: one that encodes, one whose keys do not sort
SecondInputs == {PyDict(<<Pair(PyStr(NameA), PyList(<<PyInt(1), PyFloat(25)>>))>>),
                 PyDict(<<Pair(PyInt(1), PyInt(2)), Pair(PyStr(NameA), PyInt(2))>>)}
FilePaths == {PyNone, EmptyPath,
              AbsPath(OutDir \o <<JsonName>>), RelPath(<<JsonName>>),
              AbsPath(<<DirName("new"), JsonName>>), AbsPath(OutDir),
              AbsPath(Blocker \o <<JsonName>>)}
OutputDirs == {AbsPath(OutDir), AbsPath(<<DirName("new"), DirName("sub")>>),
               RelPath(<<DirName("sub")>>), EmptyPath, AbsPath(Blocker)}
Filenames == {RelPath(<<HtmlName>>), RelPath(<<DirName("sub"), HtmlName>>),
              AbsPath(<<Name("x", ".html")>>), AbsPath(TempDir \o <<HtmlName>>)}

InitIO ==
    /\ obj = PyNone /\ result = NoResult /\ pc = "io"
    /\ fs \in InitFs
    /\ io = IdleIo
    /\ wr = IdleWr /\ shared = <<>>

\* the call ends: the file system it leaves, and the record of the call and its outcome
Finish(call, r) ==
    /\ fs' = r.fs
    /\ io' = call @@ [ret |-> r.ret, stage |-> r.stage, before |-> fs]

ToJson ==
    /\ pc = "io" /\ io = IdleIo
    /\ \E input_data \in IoInputs, file_path \in FilePaths, stem \in TempStems :
        /\ ~IsFile(fs, Resolve(TempPath(stem)))
        /\ Finish([op |-> "to_json", input |-> input_data, file_path |-> file_path],
                  to_json(input_data, file_path, fs, stem))
    /\ UNCHANGED <<obj, result, pc, wr, shared>>

CompareObjectsDiff ==
    /\ pc = "io" /\ io = IdleIo
    /\ \E obj1 \in IoInputs, obj2 \in SecondInputs, serialize_func \in Overrides \cup {"none"},
          output_dir \in OutputDirs, filename \in Filenames :
        Finish([op |-> "compare_objects_diff", obj1 |-> obj1, obj2 |-> obj2,
                serialize_func |-> serialize_func, output_dir |-> output_dir,
                filename |-> filename],
               compare_objects_diff(obj1, obj2, serialize_func, output_dir, filename, fs))
    /\ UNCHANGED <<obj, result, pc, wr, shared>>

NextIO == ToJson \/ CompareObjectsDiff

SpecIO == InitIO /\ [][NextIO]_vars

(***************************************************************************)
(* Two calls writing the same destination concurrently.  Each call has     *)
(* made its output and then runs `with open(path, "w") as f:               *)
(* f.write(text)`: open truncates the file, write puts the text into the   *)
(* handle's buffer or, for a text larger than the buffer, into the file,   *)
(* close flushes the buffer.  Each handle writes from its own offset 0.    *)
(***************************************************************************)
Writers == {1, 2}
Other(w) == 3 - w
\* a write of data at the end of the file, as a handle opened for appending makes
OverlayAtEnd(content, data) == content \o data

\* a write of data at offset 0 of a file holding content
Overlay(content, data) == data \o SubSeq(content, Len(data) + 1, Len(content))

\* the texts two to_json calls write
RaceInputs == {PyNone, PyBool(TRUE), PyInt(1), PyStr(NameA), PyList(<<PyInt(1)>>)}
JsonTexts == {json_dumps(serialize(v), JsonIndent, FALSE).s : v \in RaceInputs}
\* the documents two compare_objects_diff calls write: the renderer's text is
\* not modelled, any two non-empty texts stand for them
HtmlTexts == SeqsUpTo({"<", "x"}, MaxOutLen) \ {<<>>}

Writer(out) == [pc |-> "start", out |-> out, buf |-> <<>>]

InitRace ==
    /\ obj = PyNone /\ result = NoResult /\ pc = "race"
    /\ fs = IdleFs /\ io = IdleIo
    /\ \E texts \in {JsonTexts, HtmlTexts} : wr \in [Writers -> {Writer(out) : out \in texts}]
    /\ shared \in {<<>>, OldText.s}

\* open(path, "w")
Open(w) ==
    /\ pc = "race" /\ wr[w].pc = "start"
    /\ shared' = <<>>
    /\ wr' = [wr EXCEPT ![w].pc = "opened"]
    /\ UNCHANGED <<obj, result, pc, fs, io>>

\* f.write(text), the text staying in the handle's buffer
WriteBuffered(w) ==
    /\ pc = "race" /\ wr[w].pc = "opened"
    /\ wr' = [wr EXCEPT ![w].pc = "written", ![w].buf = wr[w].out]
    /\ UNCHANGED <<obj, result, pc, fs, io, shared>>

\* f.write(text), the text exceeding the buffer and going to the file
WriteThrough(w) ==
    /\ pc = "race" /\ wr[w].pc = "opened"
    /\ shared' = Overlay(shared, wr[w].out)
    /\ wr' = [wr EXCEPT ![w].pc = "written"]
    /\ UNCHANGED <<obj, result, pc, fs, io>>

\* leaving the with block: flush and close, then the call returns
Close(w) ==
    /\ pc = "race" /\ wr[w].pc = "written"
    /\ shared' = IF wr[w].buf # <<>> THEN Overlay(shared, wr[w].buf) ELSE shared
    /\ wr' = [wr EXCEPT ![w].pc = "returned", ![w].buf = <<>>]
    /\ UNCHANGED <<obj, result, pc, fs, io>>

NextRace == \E w \in Writers : Open(w) \/ WriteBuffered(w) \/ WriteThrough(w) \/ Close(w)

SpecRace == InitRace /\ [][NextRace]_vars

(***************************************************************************)
(* Properties of serialize.                                                *)
(***************************************************************************)
\* the earliest rule whose test the value passes
FirstRule(v) == CHOOSE r \in Rules : RuleApplies(r, v) /\ \A q \in 1..(r - 1) : ~RuleApplies(q, v)
Returned == pc = "done" /\ ~IsRaise(result)
ValueAt(d, k) == d.pairs[Lookup(d, k)].val

\* a Canonical Value: null, boolean, number, string, a sequence of Canonical
\* Values, a mapping with JSON-encodable keys and Canonical Values
RECURSIVE IsCanonical(_)
IsCanonical(v) ==
    CASE v.t \in {"none", "bool", "int", "float", "str"} -> TRUE
      [] v.t = "list" -> \A i \in DOMAIN v.items : IsCanonical(v.items[i])
      [] v.t = "dict" -> \A i \in DOMAIN v.pairs :
                            KeyEncodable(v.pairs[i].key) /\ IsCanonical(v.pairs[i].val)
      [] OTHER -> FALSE

\* C1: serialize is total: on every finite acyclic input, whatever categories
\* its members fall into, the call returns a value and raises nothing.
C1_SerializeTotal == pc = "done" => ~IsRaise(result)

\* C2: every value serialize returns is a Canonical Value, so the JSON
\* encoding that follows in to_json (indent 4) and in compare_objects_diff
\* (indent 2, sorted keys) never fails on it.
C2_ResultCanonical ==
    Returned => /\ IsCanonical(result)
                /\ ~IsRaise(json_dumps(result, 4, FALSE))
                /\ ~IsRaise(json_dumps(result, 2, TRUE))

\* C3: the result is the one the earliest matching rule produces, in the order
\* record, model_dump, dict, sequence/tuple/set, mapping, enum, date, decimal,
\* generic attributes, string, primitive, fallback.  In particular a record
\* that also has a __dict__ yields its declared fields, a value with both dump
\* operations uses model_dump, and collections, mappings, enums, dates and
\* decimals are never serialized by the generic-attribute rule.
C3_FirstMatchingRuleWins ==
    pc = "done" =>
        /\ result = ApplyRule(FirstRule(obj), obj)
        /\ (Returned /\ RuleApplies(1, obj)) =>
                /\ result.t = "dict"
                /\ Keys(result) = {PyStr(obj.fields[i].name) : i \in DOMAIN obj.fields}
        /\ (~RuleApplies(1, obj) /\ RuleApplies(2, obj) /\ ~IsType(obj)) =>
                result = serialize(obj.model_dump.ret)
        /\ (Returned /\ \A r \in 1..3 : ~RuleApplies(r, obj)) =>
                /\ RuleApplies(4, obj) => result.t = "list" /\ Len(result.items) = Len(Core(obj).items)
                /\ (~RuleApplies(4, obj) /\ RuleApplies(5, obj)) =>
                        result.t = "dict" /\ Len(result.pairs) <= Len(Core(obj).pairs)
                                          /\ (Core(obj).pairs = <<>> <=> result.pairs = <<>>)
                /\ obj.t = "enum" => result = obj.value
                /\ Core(obj).t \in {"date", "decimal"} => result.t = "str"
C3_Witness ==
    /\ pc = "done" /\ obj.t = "obj" /\ obj.isdc /\ obj.model_dump.has /\ obj.dict.has
    /\ obj.vars.has /\ obj.base.t = "list"
    /\ result.t = "dict" /\ Keys(result) = {PyStr(NameA), PyStr(NameB)}

\* C4: for an enum member e, serialize(e) = serialize(e.value), whatever the
\* stored value is.
C4_EnumAsFreshInput == (pc = "done" /\ obj.t = "enum") => result = serialize(obj.value)

\* C5: for a string reaching the string rule: when the trimmed text starts
\* with { or [ and parses as JSON the result is the parsed structure as it is,
\* its members not canonicalized again; otherwise the result is the original,
\* untrimmed string; no error escapes.
LooksLikeJson(s) == s # <<>> /\ Head(s) \in {"{", "["}
C5_StringRule ==
    (pc = "done" /\ FirstRule(obj) = 10) =>
        LET s == Strip(Core(obj).s)
            parsed == json_loads(s)
        IN  /\ ~IsRaise(result)
            /\ IF LooksLikeJson(s) /\ ~IsRaise(parsed) THEN result = parsed ELSE result = obj
            /\ obj = PyStr(<<"{", "\"", "a", "\"", ":", "1", "}">>)
                    => result = PyDict(<<Pair(PyStr(NameA), PyInt(1))>>)
            /\ obj = PyStr(<<"[", "\"", "[", "1", "]", "\"", "]">>)
                    => result = PyList(<<PyStr(JsonText)>>)
            /\ obj \in {PyStr(<<"{", "a", ":", "1", "}">>), PyStr(<<"[", "[", "1", "]", " ">>),
                        PyStr(<<" ", " ", "a", " ", " ">>)} => result = obj
C5_Witness ==
    /\ pc = "done"
    /\ obj = PyStr(<<" ", "{", "\"", "a", "\"", ":", "1", "}", " ">>)
    /\ result = PyDict(<<Pair(PyStr(NameA), PyInt(1))>>)

\* C6: for every generic object at any depth of the input, the mapping made
\* for it has exactly the attribute names that do not begin with an
\* underscore, each mapped to serialize(attribute value).
PublicAttrs(attrs) == {i \in DOMAIN attrs : ~StartsWith(attrs[i].key.s, "_")}
RECURSIVE GenericOk(_, _)
GenericOk(in, out) ==
    LET r == FirstRule(in)
    IN  CASE r = 9 ->
                LET attrs == DunderDict(in)
                IN  /\ out.t = "dict"
                    /\ Keys(out) = {attrs[i].key : i \in PublicAttrs(attrs)}
                    /\ Len(out.pairs) = Cardinality(PublicAttrs(attrs))
                    /\ \A i \in PublicAttrs(attrs) :
                            /\ ValueAt(out, attrs[i].key) = serialize(attrs[i].val)
                            /\ GenericOk(attrs[i].val, ValueAt(out, attrs[i].key))
          [] r = 1 -> \A i \in DOMAIN in.fields :
                            GenericOk(in.fields[i].val, ValueAt(out, PyStr(in.fields[i].name)))
          [] r = 2 -> GenericOk(in.model_dump.ret, out)
          [] r = 3 -> GenericOk(in.dict.ret, out)
          [] r = 4 -> \A i \in DOMAIN out.items : GenericOk(Core(in).items[i], out.items[i])
          [] r = 5 -> Len(out.pairs) = Len(Core(in).pairs) =>
                            \A i \in DOMAIN out.pairs :
                                GenericOk(Core(in).pairs[i].val, out.pairs[i].val)
          [] OTHER -> TRUE
C6_PrivateAttributesExcluded == Returned => GenericOk(obj, result)
C6_Witness ==
    /\ pc = "done"
    /\ obj = Generic(<<Pair(PyStr(NameA), PyList(<<Generic(<<Pair(PyStr(NameX), XY)>>)>>))>>)
    /\ result = PyDict(<<Pair(PyStr(NameA), PyList(<<PyDict(<<Pair(PyStr(NameX),
                            PyDict(<<Pair(PyStr(NameX), PyInt(1))>>))>>)>>))>>)

(***************************************************************************)
(* Properties of to_json and compare_objects_diff.                         *)
(***************************************************************************)
\* C7: to_json without a destination returns, for every input, the path of a
\* newly created file with the suffix .json that exists after the call and
\* holds JSON that parses back to serialize(input).
C7_TempFileRoundTrip ==
    (io.op = "to_json" /\ io.file_path = PyNone) =>
        /\ ~IsRaise(io.ret)
        /\ Last(io.ret.parts).suffix = ".json"
        /\ ~IsFile(io.before, Resolve(io.ret))
        /\ IsFile(fs, Resolve(io.ret))
        /\ json_loads(fs.files[Resolve(io.ret)].s) = serialize(io.input)

\* C8: compare_objects_diff canonicalizes both inputs with the override when
\* one is given and with serialize otherwise; on return the output directory
\* exists, the returned path is exactly <output_directory>/<filename>, and the
\* file there holds the report of the two sorted-key JSON texts under the
\* markers "Object 1" and "Object 2".
\* <a>/<b>: the names of a followed by the names of b
JoinConcat(a, b) == [t |-> "path", abs |-> a.abs, parts |-> a.parts \o b.parts]
ReportLines(serialize_func, v) ==
    SplitLines(json_dumps(Canonicalize(serialize_func, v), DiffIndent, TRUE).s, <<>>)
C8_DiffReportWritten ==
    (io.op = "compare_objects_diff" /\ ~IsRaise(io.ret)) =>
        /\ IsDir(fs, Resolve(io.output_dir))
        /\ io.ret = JoinConcat(io.output_dir, io.filename)
        /\ IsFile(fs, Resolve(io.ret))
        /\ fs.files[Resolve(io.ret)] =
                MakeFile(ReportLines(io.serialize_func, io.obj1),
                         ReportLines(io.serialize_func, io.obj2), "Object 1", "Object 2")

\* C9: when serialize, the override or the JSON encoder raises in to_json or
\* compare_objects_diff, the error reaches the caller and the file system is
\* as it was: no directory made, no file made, an existing destination file
\* neither truncated nor overwritten.
C9_NoEffectBeforeEncoding ==
    (io.op # "none" /\ io.stage \in {"serialize", "encode"}) =>
        IsRaise(io.ret) /\ fs = io.before
C9_Witness ==
    /\ io.op = "to_json" /\ io.stage = "encode"
    /\ io.file_path = AbsPath(OutDir \o <<JsonName>>)
    /\ IsFile(fs, OutDir \o <<JsonName>>)
    /\ fs.files[OutDir \o <<JsonName>>] = OldText

\* C10 as claimed: once two concurrent calls on the same destination have both
\* returned, the file holds exactly the complete output of one of them, never
\* an empty file or a mixture.
BothReturned == pc = "race" /\ \A w \in Writers : wr[w].pc = "returned"
C10_LastWriterWins == BothReturned => \E w \in Writers : shared = wr[w].out

\* C10 as amended: the file is not empty and starts with the complete output of
\* one of the two calls; it is exactly that output unless the other output is
\* longer, and then what follows is the rest of the other output.
C10_LastWriterPrefix ==
    BothReturned =>
        /\ shared # <<>>
        /\ \E w \in Writers :
            LET mine == wr[w].out
                theirs == wr[Other(w)].out
            IN  \/ shared = mine
                \/ /\ Len(theirs) > Len(mine)
                   /\ shared = mine \o SubSeq(theirs, Len(mine) + 1, Len(theirs))
C10_Witness ==
    /\ BothReturned
    /\ \A w \in Writers : shared # wr[w].out
    /\ IsPrefix(wr[1].out, shared)

====
